---------------------------- MODULE Spec2Model ----------------------------
(***************************************************************************)
(* A model of stips/utilities/makePSF.py: the ePSF builder (make_epsf),    *)
(* the PSF sampler (real_psf), the image compositor (place_source) and the *)
(* grid interpolator (interpolate_epsf).                                   *)
(*                                                                         *)
(* Numbers.  The code computes in binary floating point; the model         *)
(* computes the same expressions exactly, on scaled integers:              *)
(*   - pixel positions and offsets are counted in eighths of a pixel       *)
(*     (names ending in 8), so rx = psf_center + 4*x is counted in halves  *)
(*     (names ending in 2) and the remainders fx, fy are 0 or +-1/2;       *)
(*   - the sampler's value is carried times 32 (the bicubic surfaces need  *)
(*     a denominator of 8, the blending weights one of 4);                 *)
(*   - the convolution kernel is carried times 4 and the IPC weights       *)
(*     times 10000, so an ePSF made by make_epsf is carried times 40000.   *)
(* Non-finite floats (nan, inf) and rounding error are outside the model.  *)
(***************************************************************************)
EXTENDS Integers, FiniteSets, Sequences, TLC

VARIABLES
  op,     \* the operation that acted last ("none" after construction)
  smp,    \* the last real_psf call: its arguments, locals, reads and result
  image,  \* the caller's image buffer that place_source adds into
  plc,    \* the last place_source call: arguments, sampler calls, outcome
  bld,    \* the last make_epsf call: its input and what it returned
  itp     \* the last interpolate_epsf call: arguments, branch, weights, result

vars == <<op, smp, image, plc, bld, itp>>

(***************************************************************************)
(* Arithmetic of the Python built-ins the code uses.                       *)
(***************************************************************************)
Abs(n) == IF n < 0 THEN -n ELSE n

Min2(a, b) == IF a < b THEN a ELSE b

Max2(a, b) == IF a > b THEN a ELSE b

\* int(n/d) for d > 0: Python's int() truncates toward zero.
Trunc_floor(n, d) == n \div d

Trunc(n, d) == IF n >= 0 THEN n \div d ELSE -((-n) \div d)

\* round(n/d) for d > 0 and even: Python 3 rounds a half to the even integer.
PyRound(n, d) ==
  LET q == n \div d
      r == n % d
  IN  IF 2 * r < d THEN q
      ELSE IF 2 * r > d THEN q + 1
      ELSE IF q % 2 = 0 THEN q ELSE q + 1

(***************************************************************************)
(* numpy indexing of a square array of side size: an index k in            *)
(* -size..-1 wraps to k + size, an index outside -size..size-1 raises      *)
(* IndexError.                                                             *)
(***************************************************************************)
InRange(k, size) == -size <= k /\ k < size

Wrap(k, size) == IF k < 0 THEN k + size ELSE k

At(psf, size, r, c) ==
  IF InRange(r, size) /\ InRange(c, size) THEN psf[Wrap(r, size)][Wrap(c, size)] ELSE 0

(***************************************************************************)
(* real_psf(x, y, psf, psf_center, boxsize)                                *)
(***************************************************************************)
\* The radius test dd > 4.0 with dd = sqrt(x**2 + y**2), on eighths.
Far_radius5(x8, y8) == x8 * x8 + y8 * y8 > 40 * 40

Far(x8, y8) == x8 * x8 + y8 * y8 > 32 * 32

\* The box test (np.abs(x) > boxsize) or (np.abs(y) > boxsize).
OutOfBox_both(x8, y8, boxsize) == Abs(x8) > 8 * boxsize /\ Abs(y8) > 8 * boxsize

OutOfBox(x8, y8, boxsize) == Abs(x8) > 8 * boxsize \/ Abs(y8) > 8 * boxsize

\* The offsets (row, column) from (iy, ix) that each regime indexes.
BilinearOffsets == {<<0, 0>>, <<0, 1>>, <<1, 0>>, <<1, 1>>}

BicubicOffsets ==
  {<<0, 0>>, <<0, 1>>, <<0, -1>>, <<1, 0>>, <<-1, 0>>, <<1, 1>>,
   <<0, 2>>, <<-1, 1>>, <<1, -1>>, <<2, 0>>, <<1, 2>>, <<2, 1>>}

\* 4 * the bilinear blend of the four values, fx2 and fy2 in halves.
Blend_swapped(fx2, fy2, v1, v2, v3, v4) ==
    (2 - fx2) * (2 - fy2) * v4
  + fx2 * (2 - fy2) * v3
  + (2 - fx2) * fy2 * v2
  + fx2 * fy2 * v1

Blend(fx2, fy2, v1, v2, v3, v4) ==
    (2 - fx2) * (2 - fy2) * v1
  + fx2 * (2 - fy2) * v2
  + (2 - fx2) * fy2 * v3
  + fx2 * fy2 * v4

\* 8 * (A + B*u + C*v + D*u**2 + E*u*v + F*v**2) where B = Bn/2, C = Cn/2,
\* D = Dn/2, F = Fn/2 and u, v are given in halves.
Surface(A, Bn, Cn, Dn, E, Fn, u, v) ==
  8 * A + 2 * Bn * u + 2 * Cn * v + Dn * u * u + 2 * E * u * v + Fn * v * v

\* 32 * the bilinear value (lines 154-157).
Bilinear(psf, size, ix, iy, fx2, fy2) ==
  8 * Blend(fx2, fy2, At(psf, size, iy, ix), At(psf, size, iy, ix + 1),
            At(psf, size, iy + 1, ix), At(psf, size, iy + 1, ix + 1))

\* 32 * the bicubic value (lines 161-212).
Bicubic(psf, size, ix, iy, fx2, fy2) ==
  LET P(a, b) == At(psf, size, iy + a, ix + b)
      A1 == P(0, 0)
      A2 == P(0, 1)
      A3 == P(1, 0)
      A4 == P(1, 1)
      V1 == Surface(A1, P(0, 1) - P(0, -1), P(1, 0) - P(-1, 0),
                    P(0, 1) + P(0, -1) - 2 * A1, P(1, 1) - A1,
                    P(1, 0) + P(-1, 0) - 2 * A1, fx2, fy2)
      V2 == Surface(A2, P(0, 2) - P(0, 0), P(1, 1) - P(-1, 1),
                    P(0, 2) + P(0, 0) - 2 * A2, -(P(1, 0) - A2),
                    P(1, 1) + P(-1, 1) - 2 * A2, fx2 - 2, fy2)
      V3 == Surface(A3, P(1, 1) - P(1, -1), P(2, 0) - P(0, 0),
                    P(1, 1) + P(1, -1) - 2 * A3, -(P(0, 1) - A3),
                    P(2, 0) + P(0, 0) - 2 * A3, fx2, fy2 - 2)
      V4 == Surface(A4, P(1, 2) - P(1, 0), P(2, 1) - P(0, 1),
                    P(1, 2) + P(1, 0) - 2 * A4, P(0, 0) - A4,
                    P(2, 1) + P(0, 1) - 2 * A4, fx2 - 2, fy2 - 2)
  IN  Blend(fx2, fy2, V1, V2, V3, V4)

\* The whole call.  status is "IndexError" when an element the regime indexes
\* is outside the array (the call raises and returns nothing; value is 0 then).
real_psf(x8, y8, psf, size, psf_center, boxsize) ==
  LET rx2 == 2 * psf_center + x8
      ry2 == 2 * psf_center + y8
      ix == Trunc(rx2, 2)
      iy == Trunc(ry2, 2)
      fx2 == rx2 - 2 * ix
      fy2 == ry2 - 2 * iy
      regime == IF OutOfBox(x8, y8, boxsize) THEN "reject"
                ELSE IF Far(x8, y8) THEN "bilinear" ELSE "bicubic"
      offs == CASE regime = "reject" -> {}
                [] regime = "bilinear" -> BilinearOffsets
                [] OTHER -> BicubicOffsets
      reads == {<<iy + o[1], ix + o[2]>> : o \in offs}
      ok == \A rc \in reads : InRange(rc[1], size) /\ InRange(rc[2], size)
  IN  [x8 |-> x8, y8 |-> y8, size |-> size, psf_center |-> psf_center,
       boxsize |-> boxsize, rx2 |-> rx2, ry2 |-> ry2, ix |-> ix, iy |-> iy,
       fx2 |-> fx2, fy2 |-> fy2, regime |-> regime, reads |-> reads,
       status |-> IF ok THEN "ok" ELSE "IndexError",
       value |-> IF ~ok \/ regime = "reject" THEN 0
                 ELSE IF regime = "bilinear"
                      THEN Bilinear(psf, size, ix, iy, fx2, fy2)
                      ELSE Bicubic(psf, size, ix, iy, fx2, fy2)]


(***************************************************************************)
(* place_source(xpix, ypix, flux, image, epsf, boxsize, psf_center)        *)
(***************************************************************************)
\* Line 242: the source is strictly inside the image.
Inside_closed(xpix8, ypix8, image_size) ==
  xpix8 >= 0 /\ xpix8 <= 8 * image_size /\ ypix8 >= 0 /\ ypix8 <= 8 * image_size

Inside(xpix8, ypix8, image_size) ==
  xpix8 > 0 /\ xpix8 < 8 * image_size /\ ypix8 > 0 /\ ypix8 < 8 * image_size

\* Lines 243-248: range(min, max) along one axis.
AxisRange(pix8, boxsize, image_size) ==
  LET hi == Min2(PyRound(pix8 + 8 * boxsize, 8), image_size)
      lo == Max2(0, PyRound(pix8 - 8 * boxsize, 8))
  IN  lo..(hi - 1)

\* Line 251: the inner guard; a pixel it holds for is passed over.
Skipped_outside(i, j, image_size) ==
  (i < 0) \/ (i > image_size) \/ (j < 0) \/ (j > image_size)

Skipped(i, j, image_size) ==
  (i < 1) \/ (i > image_size) \/ (j < 1) \/ (j > image_size)

\* The loops run j outermost: pixel p is visited before pixel q.
Before(p, q) == p[1] < q[1] \/ (p[1] = q[1] /\ p[2] < q[2])

\* The whole call on image img.  The pixels are visited in loop order; the
\* first sampler call that raises IndexError ends the call, the pixels
\* before it having been added to.  calls: the pixels <<j, i>> the sampler
\* was called for; image: the buffer afterwards.
place_source(xpix8, ypix8, flux, img, image_size, epsf, size, boxsize, psf_center) ==
  LET visited == IF Inside(xpix8, ypix8, image_size)
                 THEN AxisRange(ypix8, boxsize, image_size)
                        \X AxisRange(xpix8, boxsize, image_size)
                 ELSE {}
      sampled == {p \in visited : ~Skipped(p[2], p[1], image_size)}
      ff(p) == real_psf(8 * p[2] - xpix8, 8 * p[1] - ypix8, epsf, size,
                        psf_center, boxsize)
      failed == {p \in sampled : ff(p).status = "IndexError"}
      first == CHOOSE p \in failed : \A q \in failed : q = p \/ Before(p, q)
      done == IF failed = {} THEN sampled
              ELSE {p \in sampled : Before(p, first)}
  IN  [image |-> [j \in 0..(image_size - 1) |->
                    [i \in 0..(image_size - 1) |->
                       IF <<j, i>> \in done
                       THEN img[j][i] + flux * ff(<<j, i>>).value
                       ELSE img[j][i]]],
       calls |-> IF failed = {} THEN sampled ELSE done \cup {first},
       status |-> IF failed = {} THEN "ok" ELSE "IndexError"]

(***************************************************************************)
(* make_epsf(psf_in)                                                       *)
(***************************************************************************)
RECURSIVE SumTo(_, _)
\* f[1] + ... + f[n]
SumTo(f, n) == IF n = 0 THEN 0 ELSE f[n] + SumTo(f, n - 1)

\* Lines 64-68, times 4.
epsf_array ==
  <<<<1, 2, 2, 2, 1>>,
    <<2, 4, 4, 4, 2>>,
    <<2, 4, 4, 4, 2>>,
    <<2, 4, 4, 4, 2>>,
    <<1, 2, 2, 2, 1>>>>

\* Lines 89-91, times 10000 (the code's array is these weights / 100 / 100).
ipc_array_typo ==
  <<<<21, 162, 20>>,
    <<188, 916, 187>>,
    <<21, 166, 22>>>>

ipc_array ==
  <<<<21, 162, 20>>,
    <<188, 9159, 187>>,
    <<21, 166, 22>>>>

\* Line 70: ndimage.convolve(psf_in, epsf_array, mode='constant', cval=0.0);
\* the result is carried times 4.
Convolve(psf_in, size) ==
  LET In(r, c) == IF r \in 0..(size - 1) /\ c \in 0..(size - 1)
                  THEN psf_in[r][c] ELSE 0
  IN  [r \in 0..(size - 1) |->
         [c \in 0..(size - 1) |->
            SumTo([k \in 1..25 |->
                     LET a == (k - 1) \div 5
                         b == (k - 1) % 5
                     IN  epsf_array[a + 1][b + 1] * In(r + 2 - a, c + 2 - b)],
                  25)]]

\* Lines 73-86: the cells the edge override assigns: every row of the first
\* and last three columns, and columns 3..size-4 of the first and last three
\* rows.
EdgeIndices(size) == {0, 1, 2, size - 1, size - 2, size - 3}

Overridden(r, c, size) ==
  \/ c \in EdgeIndices(size)
  \/ r \in EdgeIndices(size) /\ c \in 3..(size - 4)

OverrideCells(size) ==
  {cell \in (0..(size - 1)) \X (0..(size - 1)) : Overridden(cell[1], cell[2], size)}

\* Lines 73-86: psf_out[cell] = psf_in[cell]*16.0 (times 4 here).
EdgeOverride(psf_out, psf_in, size) ==
  [r \in 0..(size - 1) |->
     [c \in 0..(size - 1) |->
        IF Overridden(r, c, size)
        THEN 4 * (psf_in[r][c] * 16)
        ELSE psf_out[r][c]]]

\* Lines 97-98: x_range = y_range = range(4, size-5).
IpcRange_short(size) == 4..(size - 7)

IpcRange_early(size) == 2..(size - 6)

IpcRange(size) == 4..(size - 6)

\* Lines 100-102: the cells <<idy, idx>> of psf_out the loops read.
IpcReads(size) == IpcRange(size) \X IpcRange(size)

\* Lines 104-114: the cells of psf_final the loops add to.
IpcWrites(size) ==
  {<<rd[1] + 4 * (p - 1), rd[2] + 4 * (q - 1)>> :
     rd \in IpcReads(size), p \in 0..2, q \in 0..2}

\* Lines 94-114.  The loops add pcen*ipc_array[p, q] to
\* psf_final[idy + 4*(p-1), idx + 4*(q-1)] for every (idy, idx) read; summed
\* here per destination cell, over the sources that reach it.
Ipc(psf_out, size) ==
  [r \in 0..(size - 1) |->
     [c \in 0..(size - 1) |->
        SumTo([k \in 1..9 |->
                 LET p == (k - 1) \div 3
                     q == (k - 1) % 3
                     idy == r - 4 * (p - 1)
                     idx == c - 4 * (q - 1)
                 IN  IF idy \in IpcRange(size) /\ idx \in IpcRange(size)
                     THEN psf_out[idy][idx] * ipc_array[p + 1][q + 1]
                     ELSE 0],
              9)]]

\* The whole call; the result is carried times 40000.
make_epsf(psf_in, size) ==
  Ipc(EdgeOverride(Convolve(psf_in, size), psf_in, size), size)

\* The sum of all elements of a square array.
Total(arr, size) ==
  SumTo([j \in 1..size |-> SumTo([i \in 1..size |-> arr[j - 1][i - 1]], size)],
        size)

(***************************************************************************)
(* interpolate_epsf(xpix, ypix, psf_array, image_size)                     *)
(*                                                                         *)
(* xf and yf are carried as numerators xn, yn over den = 8 * round(        *)
(* image_size/2 + 4) (positions are in eighths), the four weights as       *)
(* numerators over den*den, and so is every element of the returned array. *)
(***************************************************************************)
\* The if/elif chain of lines 283-310: the first test that holds, in order.
Quadrant(xpix8, ypix8, image_size) ==
  LET half8 == 8 * PyRound(image_size, 2)
  IN  IF xpix8 <= half8 /\ ypix8 <= half8 THEN "lower left"
      ELSE IF xpix8 > half8 /\ ypix8 <= half8 THEN "lower right"
      ELSE IF xpix8 <= half8 /\ ypix8 > half8 THEN "upper left"
      ELSE IF xpix8 > half8 /\ ypix8 > half8 THEN "upper right"
      ELSE "none"

\* The weights of the four terms, in the order the code writes them:
\* xf*yf, (1-xf)*(1-yf), xf*(1-yf), (1-xf)*yf.
Weights_typo(xn, yn, den) ==
  <<xn * yn, (den - xn) * (den - yn), xn * (den - yn), (den - yn) * yn>>

Weights(xn, yn, den) ==
  <<xn * yn, (den - xn) * (den - yn), xn * (den - yn), (den - xn) * yn>>

\* The grid indices [a][b] of the tiles of the four terms, in the same order.
Tiles(quadrant) ==
  CASE quadrant = "lower left" -> <<<<1, 1>>, <<0, 0>>, <<1, 0>>, <<0, 1>>>>
    [] quadrant = "lower right" -> <<<<2, 1>>, <<1, 0>>, <<2, 0>>, <<1, 1>>>>
    [] quadrant = "upper left" -> <<<<1, 2>>, <<0, 1>>, <<1, 1>>, <<0, 2>>>>
    [] quadrant = "upper right" -> <<<<2, 2>>, <<1, 1>>, <<2, 1>>, <<1, 2>>>>

\* The whole call; tiles are square arrays of side tside.  status is
\* "UnboundLocalError" when no branch assigns epsf.
interpolate_epsf(xpix8, ypix8, psf_array, image_size, tside) ==
  LET quadrant == Quadrant(xpix8, ypix8, image_size)
      den == 8 * PyRound(image_size + 8, 2)
      xn == IF quadrant \in {"lower right", "upper right"}
            THEN xpix8 + 32 - den ELSE xpix8 + 32
      yn == IF quadrant \in {"upper left", "upper right"}
            THEN ypix8 + 32 - den ELSE ypix8 + 32
      w == Weights(xn, yn, den)
      t == Tiles(quadrant)
  IN  IF quadrant = "none"
      THEN [status |-> "UnboundLocalError", quadrant |-> quadrant,
            den |-> den, w |-> <<>>, epsf |-> <<>>]
      ELSE [status |-> "ok", quadrant |-> quadrant, den |-> den, w |-> w,
            epsf |-> [r \in 0..(tside - 1) |->
                        [c \in 0..(tside - 1) |->
                           SumTo([k \in 1..4 |->
                                    w[k] * psf_array[t[k][1]][t[k][2]][r][c]],
                                 4)]]]

(***************************************************************************)
(* The ePSF arrays the sampler and the compositor are given.  Their values *)
(* are positive and not an affine function of the indices, so a lookup of  *)
(* the wrong element and an inexact interpolation both show.               *)
(***************************************************************************)
Pattern(id, size) ==
  [r \in 0..(size - 1) |->
     [c \in 0..(size - 1) |->
        IF id = 1 THEN 1 + ((r * r + 3 * c * c + r * c + 7 * r + c) % 1009)
        ELSE 1 + ((5 * r * r + c * c * c + 11 * c) % 499)]]

NoCall == [status |-> "none"]

Idle ==
  /\ op = "none"
  /\ smp = NoCall
  /\ plc = NoCall
  /\ bld = NoCall
  /\ itp = NoCall

(***************************************************************************)
(* The sampler on its own: one call of real_psf, its arguments drawn from  *)
(* sized configurations (psf_center >= 4*boxsize and room for the reads)   *)
(* and from undersized ones, its offsets from inside and outside the box.  *)
(***************************************************************************)
MaxBox == 6

SizedConfigs ==
  {[size |-> c + 4 * b + 2, psf_center |-> c, boxsize |-> b] :
     <<b, c>> \in {bc \in (5..MaxBox) \X (20..(4 * MaxBox + 1)) :
                     bc[2] \in (4 * bc[1])..(4 * bc[1] + 1)}}

UndersizedConfigs ==
  {[size |-> 12, psf_center |-> 4, boxsize |-> 2],
   [size |-> 34, psf_center |-> 16, boxsize |-> 4]}

SamplerConfigs == SizedConfigs \cup UndersizedConfigs

Offsets(boxsize) == (-(8 * boxsize + 8))..(8 * boxsize + 8)

InitSampler == Idle /\ image = <<>>

RealPsfCall ==
  /\ op = "none"
  /\ \E cfg \in SamplerConfigs, id \in 1..2 :
       \E x8 \in Offsets(cfg.boxsize), y8 \in Offsets(cfg.boxsize) :
         /\ smp' = [call |-> real_psf(x8, y8, Pattern(id, cfg.size), cfg.size,
                                      cfg.psf_center, cfg.boxsize),
                    epsf |-> id]
         /\ op' = "real_psf"
  /\ UNCHANGED <<image, plc, bld, itp>>

NextSampler == RealPsfCall

SpecSampler == InitSampler /\ [][NextSampler]_vars

\* The offset of call c is outside the box on some axis.
C1_Rejected(c) == Abs(c.x8) > 8 * c.boxsize \/ Abs(c.y8) > 8 * c.boxsize

(***************************************************************************)
(* C1.  real_psf returns exactly 0.0 whenever |dx| > boxsize or            *)
(* |dy| > boxsize, for any ePSF array and any center, without reading any  *)
(* element of the ePSF array.                                              *)
(***************************************************************************)
C1_BoundsRejection ==
  (op = "real_psf" /\ C1_Rejected(smp.call))
    => /\ smp.call.status = "ok"
       /\ smp.call.value = 0
       /\ smp.call.reads = {}

\* Only one axis is outside the box, and the cell the offset maps to is beyond
\* the end of an undersized array: an access would have raised.
C1_Witness ==
  /\ op = "real_psf"
  /\ Abs(smp.call.x8) > 8 * smp.call.boxsize
  /\ Abs(smp.call.y8) <= 8 * smp.call.boxsize
  /\ smp.call.ix >= smp.call.size
  /\ smp.call.value = 0
  /\ smp.call.reads = {}

\* The offset of call c is a whole number of oversampled cells on both axes
\* and inside the box.
C5_OnGrid(c) ==
  /\ c.x8 % 2 = 0
  /\ c.y8 % 2 = 0
  /\ Abs(c.x8) <= 8 * c.boxsize
  /\ Abs(c.y8) <= 8 * c.boxsize

\* epsf[center + 4*dy, center + 4*dx], a negative index counting from the end.
C5_Element(c, id) ==
  Pattern(id, c.size)[Wrap(c.psf_center + (c.y8 \div 2), c.size)]
                     [Wrap(c.psf_center + (c.x8 \div 2), c.size)]

(***************************************************************************)
(* C5.  When the offset lands exactly on an oversampled grid point (4*dx   *)
(* and 4*dy are integers, so fx = fy = 0) and is inside the box, a call    *)
(* that returns gives exactly the ePSF element epsf[iy, ix] with           *)
(* ix = center + 4*dx and iy = center + 4*dy, in the bicubic regime        *)
(* (d <= 4, dx = dy = 0 included) as well as in the bilinear regime.       *)
(***************************************************************************)
C5_ExactAtGridPoints ==
  (op = "real_psf" /\ C5_OnGrid(smp.call) /\ smp.call.status = "ok")
    => /\ smp.call.fx2 = 0
       /\ smp.call.fy2 = 0
       /\ 2 * smp.call.ix = 2 * smp.call.psf_center + smp.call.x8
       /\ 2 * smp.call.iy = 2 * smp.call.psf_center + smp.call.y8
       /\ smp.call.regime \in {"bilinear", "bicubic"}
       /\ smp.call.value = 32 * C5_Element(smp.call, smp.epsf)

\* A bicubic call on a grid point other than the center, whose diagonal
\* neighbour holds another value.
C5_Witness ==
  /\ op = "real_psf"
  /\ C5_OnGrid(smp.call)
  /\ smp.call.status = "ok"
  /\ smp.call.regime = "bicubic"
  /\ smp.call.x8 = 6
  /\ smp.call.y8 = -2
  /\ smp.call.value = 32 * C5_Element(smp.call, smp.epsf)
  /\ Pattern(smp.epsf, smp.call.size)[smp.call.iy + 1][smp.call.ix + 1]
       # C5_Element(smp.call, smp.epsf)

\* i is the floor of r2/2 and the remainder f2/2 is in [0,1).
C8_FloorOf(i, r2, f2) == 2 * i <= r2 /\ r2 < 2 * i + 2 /\ f2 \in 0..1

(***************************************************************************)
(* C8.  As claimed: in every sampler call ix and iy are the integer floors *)
(* of rx and ry, so fx = rx - ix and fy = ry - iy lie in [0,1), for every  *)
(* dx, dy, center and boxsize (negative rx or ry included).                *)
(***************************************************************************)
C8_AsClaimed ==
  op = "real_psf"
    => /\ C8_FloorOf(smp.call.ix, smp.call.rx2, smp.call.fx2)
       /\ C8_FloorOf(smp.call.iy, smp.call.ry2, smp.call.fy2)

\* i is r2/2 truncated toward zero and f2/2 the remainder.
C8_TruncOf(i, r2, f2) ==
  /\ f2 = r2 - 2 * i
  /\ r2 >= 0 => C8_FloorOf(i, r2, f2)
  /\ r2 < 0 => (2 * i - 2 < r2 /\ r2 <= 2 * i /\ f2 \in (-1)..0)

(***************************************************************************)
(* C8, amended.  ix and iy are rx and ry truncated toward zero: the floor, *)
(* with the remainder in [0,1), when the coordinate is >= 0, and the       *)
(* ceiling, with the remainder in (-1,0], when it is negative.  Every call *)
(* inside the box with center >= 4*boxsize has rx, ry >= 0.                *)
(***************************************************************************)
C8_Truncation ==
  op = "real_psf"
    => /\ C8_TruncOf(smp.call.ix, smp.call.rx2, smp.call.fx2)
       /\ C8_TruncOf(smp.call.iy, smp.call.ry2, smp.call.fy2)
       /\ (~C1_Rejected(smp.call)
            /\ smp.call.psf_center >= 4 * smp.call.boxsize)
           => (smp.call.rx2 >= 0 /\ smp.call.ry2 >= 0)

\* A call with a sized configuration whose rx is negative and not an integer.
C8_Witness ==
  /\ op = "real_psf"
  /\ smp.call.psf_center >= 4 * smp.call.boxsize
  /\ smp.call.rx2 < 0
  /\ smp.call.fx2 = -1
  /\ smp.call.ry2 >= 0
  /\ smp.call.fy2 = 1

\* The sizing of the claim, the box, and the indices it says are reached.
C9_Sized(c) ==
  /\ c.psf_center >= 4 * c.boxsize
  /\ c.boxsize >= 5
  /\ c.size >= c.psf_center + 4 * c.boxsize + 2

C9_InsideBox(c) == Abs(c.x8) <= 8 * c.boxsize /\ Abs(c.y8) <= 8 * c.boxsize

C9_Reach(c) == (c.psf_center - 4 * c.boxsize)..(c.psf_center + 4 * c.boxsize + 1)

(***************************************************************************)
(* C9.  If center >= 4*boxsize, boxsize >= 5 and the ePSF has side         *)
(* >= center + 4*boxsize + 2, every element read for an offset with        *)
(* |dx| <= boxsize and |dy| <= boxsize has both indices in                 *)
(* [center - 4*boxsize, center + 4*boxsize + 1], inside [0, size-1]: the   *)
(* bilinear regime reads ix..ix+1, the bicubic regime ix-1..ix+2.          *)
(***************************************************************************)
C9_ReadsInBounds ==
  (op = "real_psf" /\ C9_Sized(smp.call) /\ C9_InsideBox(smp.call))
    => /\ smp.call.reads # {}
       /\ smp.call.status = "ok"
       /\ C9_Reach(smp.call) \subseteq 0..(smp.call.size - 1)
       /\ \A rc \in smp.call.reads :
            /\ rc[1] \in C9_Reach(smp.call)
            /\ rc[2] \in C9_Reach(smp.call)
            /\ smp.call.regime = "bilinear"
                 => /\ rc[1] \in smp.call.iy..(smp.call.iy + 1)
                    /\ rc[2] \in smp.call.ix..(smp.call.ix + 1)
            /\ smp.call.regime = "bicubic"
                 => /\ rc[1] \in (smp.call.iy - 1)..(smp.call.iy + 2)
                    /\ rc[2] \in (smp.call.ix - 1)..(smp.call.ix + 2)

\* The far corner of the box in the tightest array: the last row and column
\* are read.
C9_Witness ==
  /\ op = "real_psf"
  /\ C9_Sized(smp.call)
  /\ smp.call.size = smp.call.psf_center + 4 * smp.call.boxsize + 2
  /\ smp.call.x8 = 8 * smp.call.boxsize
  /\ smp.call.y8 = 8 * smp.call.boxsize
  /\ <<smp.call.size - 1, smp.call.size - 1>> \in smp.call.reads
  /\ smp.call.status = "ok"

(***************************************************************************)
(* The compositor: up to MaxCalls calls of place_source in a row on one    *)
(* image buffer, which starts as zeros or holding earlier content.         *)
(* Positions are on, next to and beyond the image's edges, on half pixels  *)
(* (where round() goes to the even integer) and off the oversampled grid.  *)
(***************************************************************************)
ImageSide == 5

MaxCalls == 2

Zeros(n) == [j \in 0..(n - 1) |-> [i \in 0..(n - 1) |-> 0]]

Ramp(n) == [j \in 0..(n - 1) |-> [i \in 0..(n - 1) |-> 1 + j + i]]

Sized1 == [size |-> 22, psf_center |-> 10, boxsize |-> 1, flux |-> 1, epsf |-> 1]

Sized2 == [size |-> 22, psf_center |-> 10, boxsize |-> 2, flux |-> 2, epsf |-> 2]

Undersized2 == [size |-> 12, psf_center |-> 4, boxsize |-> 2, flux |-> 1, epsf |-> 1]

\* The calls drawn from: (xpix, ypix) in eighths of a pixel, with the flux,
\* ePSF, boxsize and psf_center of the call.
Placements(n) ==
  ({<<4, 4>>, <<12, 20>>, <<20, 12>>, <<17, 27>>, <<8 * n - 4, 8 * n - 4>>}
     \X {Sized1, Sized2})
  \cup ({<<20, 20>>, <<8 * n - 4, 4>>} \X {Sized1, Undersized2})
  \cup ({<<0, 20>>, <<20, 8 * n>>, <<-8, 20>>} \X {Sized1})
  \cup ({<<20, 0>>, <<8 * n, 20>>, <<20, 8 * n + 8>>} \X {Undersized2})

InitCompositor ==
  /\ Idle
  /\ image \in {Zeros(ImageSide), Ramp(ImageSide)}

PlaceSourceCall ==
  /\ op \in {"none", "place_source"}
  /\ op = "place_source" => plc.n < MaxCalls
  /\ \E pl \in Placements(ImageSide) :
       LET pos == pl[1]
           src == pl[2]
           r == place_source(pos[1], pos[2], src.flux, image, ImageSide,
                             Pattern(src.epsf, src.size), src.size,
                             src.boxsize, src.psf_center)
       IN  /\ image' = r.image
           /\ plc' = [xpix8 |-> pos[1], ypix8 |-> pos[2], flux |-> src.flux,
                      image_size |-> ImageSide, boxsize |-> src.boxsize,
                      psf_center |-> src.psf_center, size |-> src.size,
                      epsf |-> src.epsf, calls |-> r.calls,
                      status |-> r.status,
                      n |-> IF op = "none" THEN 1 ELSE plc.n + 1]
  /\ op' = "place_source"
  /\ UNCHANGED <<smp, bld, itp>>

NextCompositor == PlaceSourceCall

SpecCompositor == InitCompositor /\ [][NextCompositor]_vars

\* The source of call c is on or beyond an edge of the image.
C2_Outside(c) ==
  \/ c.xpix8 <= 0
  \/ c.xpix8 >= 8 * c.image_size
  \/ c.ypix8 <= 0
  \/ c.ypix8 >= 8 * c.image_size

(***************************************************************************)
(* C2.  place_source called with xpix <= 0, xpix >= image_size, ypix <= 0  *)
(* or ypix >= image_size leaves every pixel of the image unchanged and     *)
(* performs no sampler call, for any flux, ePSF, boxsize and center.       *)
(***************************************************************************)
C2_BoundaryNoOp ==
  [][(op' = "place_source" /\ C2_Outside(plc'))
       => (image' = image /\ plc'.calls = {} /\ plc'.status = "ok")]_vars

\* A source exactly on the right edge, level with the middle of an image that
\* holds earlier content, with an ePSF too small for its box.
C2_Witness ==
  /\ op = "place_source"
  /\ plc.xpix8 = 8 * plc.image_size
  /\ plc.ypix8 = 20
  /\ plc.size = 12
  /\ plc.calls = {}
  /\ image = Ramp(ImageSide)

\* max(0, round(pix - boxsize)) <= k < min(round(pix + boxsize), image_size)
C3_InBox(k, pix8, boxsize, image_size) ==
  /\ Max2(0, PyRound(pix8 - 8 * boxsize, 8)) <= k
  /\ k < Min2(PyRound(pix8 + 8 * boxsize, 8), image_size)

\* Pixel image[j, i] is one that call c may change.
C3_MayChange(c, j, i) ==
  /\ ~C2_Outside(c)
  /\ C3_InBox(j, c.ypix8, c.boxsize, c.image_size)
  /\ C3_InBox(i, c.xpix8, c.boxsize, c.image_size)
  /\ i >= 1
  /\ j >= 1

(***************************************************************************)
(* C3.  The only pixels image[j,i] that place_source can change are those  *)
(* of a source inside the image with                                       *)
(* max(0, round(ypix-boxsize)) <= j < min(round(ypix+boxsize), image_size),*)
(* the same range in x for i, and i >= 1 and j >= 1; every other pixel, in *)
(* particular all of row 0 and column 0, keeps its value over any sequence *)
(* of place_source calls.                                                  *)
(***************************************************************************)
C3_OnlyBoxPixelsChange ==
  [][/\ \A j \in 0..(ImageSide - 1), i \in 0..(ImageSide - 1) :
          image'[j][i] # image[j][i] => C3_MayChange(plc', j, i)
     /\ \A k \in 0..(ImageSide - 1) :
          image'[0][k] = image[0][k] /\ image'[k][0] = image[k][0]]_vars

\* A source half a pixel from the corner: its box holds row 0 and column 0,
\* pixel (1,1) was added to and row 0 and column 0 still hold the content the
\* image started with on the second call in a row.
C3_Witness ==
  /\ op = "place_source"
  /\ plc.n = 2
  /\ plc.xpix8 = 4
  /\ plc.ypix8 = 4
  /\ plc.status = "ok"
  /\ C3_InBox(0, plc.xpix8, plc.boxsize, plc.image_size)
  /\ <<1, 1>> \in plc.calls
  /\ image[1][1] > Ramp(ImageSide)[1][1]
  /\ \A k \in 0..(ImageSide - 1) :
       image[0][k] = Ramp(ImageSide)[0][k] /\ image[k][0] = Ramp(ImageSide)[k][0]

(***************************************************************************)
(* The builder on its own: one call of make_epsf on a square raw PSF of    *)
(* side MinSize..MaxSize (bld holds the input before the call): an array   *)
(* with no zero element, or a unit impulse, at any cell for the sides up   *)
(* to FullSize (make_epsf is linear in its input: the impulses span every  *)
(* input) and at the central cells for the larger sides.  Side 3 is the    *)
(* smallest for which the edge override's column and row indices 0..2 and  *)
(* size-3..size-1 exist.                                                   *)
(***************************************************************************)
MinSize == 3

FullSize == 12

MaxSize == 16

Impulse(size, at) ==
  [r \in 0..(size - 1) |-> [c \in 0..(size - 1) |->
     IF <<r, c>> = at THEN 1 ELSE 0]]

Dense(size) ==
  [r \in 0..(size - 1) |-> [c \in 0..(size - 1) |-> 1 + ((r * r + 3 * c) % 7)]]

RawPsf(kind, size, at) ==
  IF kind = "impulse" THEN Impulse(size, at) ELSE Dense(size)

Centers(size) == {(size - 1) \div 2, size \div 2}

ImpulseCells(size) ==
  IF size <= FullSize THEN (0..(size - 1)) \X (0..(size - 1))
  ELSE Centers(size) \X Centers(size)

InitBuilder ==
  /\ op = "none"
  /\ smp = NoCall
  /\ plc = NoCall
  /\ itp = NoCall
  /\ image = <<>>
  /\ \E size \in MinSize..MaxSize :
       \E kind \in {"impulse", "dense"} :
         \E at \in ImpulseCells(size) :
           /\ kind = "dense" => at = <<(size - 1) \div 2, (size - 1) \div 2>>
           /\ bld = [kind |-> kind, size |-> size, at |-> at, out |-> <<>>]

MakeEpsfCall ==
  /\ op = "none"
  /\ bld' = [bld EXCEPT !.out = make_epsf(RawPsf(bld.kind, bld.size, bld.at),
                                          bld.size)]
  /\ op' = "make_epsf"
  /\ UNCHANGED <<smp, image, plc, itp>>

NextBuilder == MakeEpsfCall

SpecBuilder == InitBuilder /\ [][NextBuilder]_vars

\* make_epsf was called on a unit impulse at the center of a side >= 15 array.
C6_CentralImpulse ==
  /\ op = "make_epsf"
  /\ bld.kind = "impulse"
  /\ bld.size >= 15
  /\ bld.at[1] \in {(bld.size - 1) \div 2, bld.size \div 2}
  /\ bld.at[2] \in {(bld.size - 1) \div 2, bld.size \div 2}

\* The sums of the kernel's weights (times 4) and of the IPC weights (times
\* 10000).
C6_KernelSum == SumTo([k \in 1..25 |-> epsf_array[1 + ((k - 1) \div 5)][1 + ((k - 1) % 5)]], 25)

C6_IpcSum == SumTo([k \in 1..9 |-> ipc_array[1 + ((k - 1) \div 3)][1 + ((k - 1) % 3)]], 9)

(***************************************************************************)
(* C6.  For every square raw PSF of side >= 15 that is zero except for a   *)
(* unit impulse at its center, the sum of all elements of the array        *)
(* make_epsf returns is the input sum times the sum of the kernel weights  *)
(* (16) times the IPC factor 0.9946 (the nine IPC weights' sum / 100).     *)
(***************************************************************************)
C6_FluxConservation ==
  C6_CentralImpulse
    => /\ C6_KernelSum = 4 * 16
       /\ C6_IpcSum = 9946
       /\ Total(bld.out, bld.size)
            = Total(Impulse(bld.size, bld.at), bld.size) * C6_KernelSum * C6_IpcSum

\* The smallest side of the claim: the impulse's convolved footprint, columns
\* and rows 5..9, ends on the last index the IPC loops read.
C6_Witness ==
  /\ C6_CentralImpulse
  /\ bld.size = 15
  /\ bld.at = <<7, 7>>
  /\ bld.out[7][7] = 4 * 9159
  /\ bld.out[13][13] = 22
  /\ Total(bld.out, bld.size) = 64 * 9946

\* make_epsf with lines 72-86 taken out.
C10_WithoutOverride(psf_in, size) == Ipc(Convolve(psf_in, size), size)

(***************************************************************************)
(* C10.  The array make_epsf returns does not depend on the edge override: *)
(* the IPC pass reads the convolved array only at indices 4..size-6 on     *)
(* both axes and writes only to indices 0..size-2, the override changes    *)
(* only cells with a row or column index in {0,1,2,size-3,size-2,size-1};  *)
(* make_epsf with and without the override returns the same array.         *)
(***************************************************************************)
C10_OverrideIsDead ==
  op = "make_epsf"
    => /\ bld.out = C10_WithoutOverride(RawPsf(bld.kind, bld.size, bld.at), bld.size)
       /\ \A rd \in IpcReads(bld.size) :
            rd[1] \in 4..(bld.size - 6) /\ rd[2] \in 4..(bld.size - 6)
       /\ \A wr \in IpcWrites(bld.size) :
            wr[1] \in 0..(bld.size - 2) /\ wr[2] \in 0..(bld.size - 2)
       /\ \A cell \in OverrideCells(bld.size) :
            \/ cell[1] \in EdgeIndices(bld.size)
            \/ cell[2] \in EdgeIndices(bld.size)
       /\ OverrideCells(bld.size) \cap IpcReads(bld.size) = {}

\* An input on which the override does change the convolved array (a cell in
\* column 2 of an impulse there: 16.0 instead of the kernel's 1.0), and whose
\* returned array is not all zero.
C10_Witness ==
  /\ op = "make_epsf"
  /\ bld.kind = "impulse"
  /\ bld.size = 12
  /\ bld.at = <<5, 2>>
  /\ Convolve(Impulse(12, bld.at), 12)[5][2] = 4
  /\ EdgeOverride(Convolve(Impulse(12, bld.at), 12), Impulse(12, bld.at), 12)[5][2] = 64
  /\ bld.out[4][4] > 0
  /\ bld.out = C10_WithoutOverride(Impulse(12, bld.at), 12)

(***************************************************************************)
(* The grid interpolator on its own: one call of interpolate_epsf (itp     *)
(* holds the arguments before the call) on a 3x3 grid whose tiles are all  *)
(* the same array or all different, for image sizes 1..MaxImageSize and    *)
(* sources from two pixels before the image to two pixels past it, on half *)
(* pixels and an eighth of a pixel either side of the center line.         *)
(***************************************************************************)
MaxImageSize == 6

Tile(seed) == [r \in 0..1 |-> [c \in 0..1 |-> seed + 2 * r + c]]

Grid(kind) ==
  [a \in 0..2 |-> [b \in 0..2 |->
     CASE kind = "uniform" -> Tile(1)
       [] kind = "uniform7" -> Tile(7)
       [] OTHER -> Tile(1 + 5 * (3 * a + b))]]

SourceCoordinates(image_size) ==
  {k \in (-16)..(8 * image_size + 16) :
     k % 4 = 0 \/ Abs(k - 8 * PyRound(image_size, 2)) <= 1}

InitInterpolator ==
  /\ op = "none"
  /\ smp = NoCall
  /\ plc = NoCall
  /\ bld = NoCall
  /\ image = <<>>
  /\ \E image_size \in 1..MaxImageSize :
       \E xpix8 \in SourceCoordinates(image_size),
          ypix8 \in SourceCoordinates(image_size),
          kind \in {"uniform", "uniform7", "varied"} :
         itp = [xpix8 |-> xpix8, ypix8 |-> ypix8, image_size |-> image_size,
                grid |-> kind, result |-> NoCall]

InterpolateEpsfCall ==
  /\ op = "none"
  /\ itp' = [itp EXCEPT !.result =
               interpolate_epsf(itp.xpix8, itp.ypix8, Grid(itp.grid),
                                itp.image_size, 2)]
  /\ op' = "interpolate_epsf"
  /\ UNCHANGED <<smp, image, plc, bld>>

NextInterpolator == InterpolateEpsfCall

SpecInterpolator == InitInterpolator /\ [][NextInterpolator]_vars

\* The nine tiles of the grid are the same array.
C7_Uniform == itp.grid \in {"uniform", "uniform7"}

\* The tests of the four branches, each on its own.
C7_BranchTests(c) ==
  LET half8 == 8 * PyRound(c.image_size, 2)
  IN  <<c.xpix8 <= half8 /\ c.ypix8 <= half8,
        c.xpix8 > half8 /\ c.ypix8 <= half8,
        c.xpix8 <= half8 /\ c.ypix8 > half8,
        c.xpix8 > half8 /\ c.ypix8 > half8>>

(***************************************************************************)
(* C7.  For a 3x3 grid whose nine tiles are the same array T,              *)
(* interpolate_epsf returns T unchanged for any (xpix, ypix) and any       *)
(* image_size: exactly one of the four quadrant branches is taken and its  *)
(* four blending weights sum to 1.                                         *)
(***************************************************************************)
C7_UniformGridUnchanged ==
  (op = "interpolate_epsf" /\ C7_Uniform)
    => /\ itp.result.status = "ok"
       /\ Cardinality({k \in 1..4 : C7_BranchTests(itp)[k]}) = 1
       /\ itp.result.den > 0
       /\ SumTo(itp.result.w, 4) = itp.result.den * itp.result.den
       /\ \A r \in 0..1, c \in 0..1 :
            itp.result.epsf[r][c]
              = itp.result.den * itp.result.den * Grid(itp.grid)[0][0][r][c]

\* A source an eighth of a pixel right of the center line and two pixels past
\* the image in y: the upper right branch, with four different weights.
C7_Witness ==
  /\ op = "interpolate_epsf"
  /\ itp.grid = "uniform7"
  /\ itp.image_size = 5
  /\ itp.xpix8 = 8 * 2 + 1
  /\ itp.ypix8 = 8 * 5 + 16
  /\ itp.result.quadrant = "upper right"
  /\ itp.result.w = <<40, 376, 8, 1880>>
  /\ itp.result.epsf[1][1] = itp.result.den * itp.result.den * 10

(***************************************************************************)
(* End to end: make_epsf on a 64x64 raw PSF holding one unit impulse, then *)
(* place_source with the returned ePSF on a 64x64 image of zeros.  The     *)
(* scenario of the specification is the impulse at (32,32), the source at  *)
(* (32.0, 32.0), flux 1000, boxsize 20 and psf_center 32; the impulse, the *)
(* source position, the flux and the boxsize are also drawn from values    *)
(* around the scenario's.                                                  *)
(***************************************************************************)
Scenario ==
  [size |-> 64, at |-> <<32, 32>>, xpix8 |-> 8 * 32, ypix8 |-> 8 * 32,
   flux |-> 1000, boxsize |-> 20, psf_center |-> 32]

ScenarioPositions ==
  {<<Scenario.xpix8 + d[1], Scenario.ypix8 + d[2]>> :
     d \in {<<0, 0>>, <<1, 0>>, <<0, 4>>, <<-4, -6>>, <<8, 8>>, <<2, 2>>,
            <<-8, 0>>, <<3, -3>>, <<16, -16>>, <<0, -1>>}}

InitEndToEnd ==
  /\ op = "none"
  /\ smp = NoCall
  /\ plc = NoCall
  /\ itp = NoCall
  /\ image = Zeros(Scenario.size)
  /\ \E at \in {Scenario.at, <<Scenario.at[1] - 1, Scenario.at[2] - 1>>} :
       bld = [kind |-> "impulse", size |-> Scenario.size, at |-> at,
              out |-> <<>>]

PlaceBuiltSource ==
  /\ op = "make_epsf"
  /\ \E pos \in ScenarioPositions, boxsize \in {7, 8, Scenario.boxsize},
        flux \in {1, Scenario.flux} :
       LET r == place_source(pos[1], pos[2], flux, image, Scenario.size,
                             bld.out, bld.size, boxsize, Scenario.psf_center)
       IN  /\ image' = r.image
           /\ plc' = [xpix8 |-> pos[1], ypix8 |-> pos[2], flux |-> flux,
                      image_size |-> Scenario.size, boxsize |-> boxsize,
                      psf_center |-> Scenario.psf_center, size |-> bld.size,
                      epsf |-> "built", calls |-> r.calls,
                      status |-> r.status, n |-> 1]
  /\ op' = "place_source"
  /\ UNCHANGED <<smp, bld, itp>>

NextEndToEnd == MakeEpsfCall \/ PlaceBuiltSource

SpecEndToEnd == InitEndToEnd /\ [][NextEndToEnd]_vars

\* The scenario's calls have been made, with the given boxsize.
C4_ScenarioDone(boxsize) ==
  /\ op = "place_source"
  /\ bld.at = Scenario.at
  /\ plc.xpix8 = Scenario.xpix8
  /\ plc.ypix8 = Scenario.ypix8
  /\ plc.flux = Scenario.flux
  /\ plc.boxsize = boxsize

\* 1000.0 x 0.9946 in the image's unit: an ePSF of make_epsf is carried
\* times 40000 and a sample times 32.
C4_Expected == Scenario.flux * 9946 * 4 * 32

\* The image's total is within 1% of 1000.0 x 0.9946 and its peak pixel is
\* at (32,32).
C4_Outcome ==
  /\ plc.status = "ok"
  /\ Abs(Total(image, Scenario.size) - C4_Expected) <= C4_Expected \div 100
  /\ \A j \in 0..(Scenario.size - 1), i \in 0..(Scenario.size - 1) :
       <<j, i>> # <<32, 32>> => image[j][i] < image[32][32]

(***************************************************************************)
(* C4.  As claimed: for a 64x64 zero raw PSF with a single impulse 1.0 at  *)
(* (32,32), make_epsf followed by place_source(32.0, 32.0, 1000.0,         *)
(* zeros(64,64), epsf, boxsize=20, center=32) completes and produces an    *)
(* image whose total is within 1% of 1000.0 x 0.9946 and whose peak pixel  *)
(* is at (32,32).                                                          *)
(***************************************************************************)
C4_AsClaimed == C4_ScenarioDone(Scenario.boxsize) => C4_Outcome

(***************************************************************************)
(* C4, amended.  With boxsize=8 in place of 20 the calls complete, the     *)
(* image's total is within 1% of 1000.0 x 0.9946 and its peak pixel is at  *)
(* (32,32).  With boxsize=20 place_source does not complete: the sampler   *)
(* is called for row 12, columns 12..40, and at column 40 (dx = 8) it      *)
(* indexes ePSF column 64 of 64 and raises IndexError; the image is still  *)
(* all zero then (the calls before read ePSF row -48, which is zero).      *)
(***************************************************************************)
C4_EndToEnd ==
  /\ C4_ScenarioDone(8) => C4_Outcome
  /\ C4_ScenarioDone(Scenario.boxsize)
       => /\ plc.status = "IndexError"
          /\ plc.calls = {12} \X (12..40)
          /\ image = Zeros(Scenario.size)

\* The scenario with boxsize=8, completed: the peak holds the central IPC
\* weight 0.9159 of the flux, the pixel one row down and one column up the
\* weight 0.0020, and the total is 0.9946 of the flux.
C4_Witness ==
  /\ C4_ScenarioDone(8)
  /\ plc.status = "ok"
  /\ image[32][32] = Scenario.flux * 9159 * 4 * 32
  /\ image[31][33] = Scenario.flux * 20 * 4 * 32
  /\ Total(image, Scenario.size) = C4_Expected

=============================================================================
